---- MODULE Spec2Model ----
(***************************************************************************)
(* Model of the query deduplication + caching layer of the Nigeria PHC AI  *)
(* assistant backend:                                                      *)
(*   backend/services/cache_service.py          CacheService               *)
(*   backend/services/deduplication_service.py  DeduplicationService       *)
(*   backend/services/groq_service.py           GroqService                *)
(*   backend/api/routes/triage.py               analyze_symptoms           *)
(*   backend/core/database.py                   save_chat_message          *)
(*                                                                         *)
(* Time is an integer clock `now` (datetime.now()).  One clock unit stands *)
(* for the shortest TTL the program uses in the modelled flow (3600 s);    *)
(* the day-long TTLs (86400 s) are scaled to 2 units, which keeps their    *)
(* order.  A Python dict is modelled as the sequence of its items in       *)
(* insertion order, which is the order dict iteration and min() see.       *)
(* Python values are records tagged with their kind, so that None, falsy   *)
(* and truthy payloads are distinguishable.                                *)
(***************************************************************************)
EXTENDS Integers, Sequences, FiniteSets, TLC

VARIABLES now, cache, disk, saved, last,
          seen_hashes, has_client, failed, threads, chat_table

vars == <<now, cache, disk, saved, last,
          seen_hashes, has_client, failed, threads, chat_table>>

----------------------------------------------------------------------------
(* Bounds of the model *)

\* the clock of the cache API runs from 0 to MaxTime
MaxTime == 2
\* the clock of the triage flow runs from 0 to MaxTriageTime
MaxTriageTime == 3
\* the number of concurrent callers of get_or_create_query_id
NThreads == 2
\* get is not taken on an entry that already has MaxHits hits
MaxHits == 1

(* Program constants; the TTLs in clock units *)

\* self.max_size, the configured maximum number of entries (settings.
\* MAX_CACHE_SIZE by default); 2 is the configuration of the capacity test
max_size == 2

\* settings.CACHE_TTL = 3600 s
CACHE_TTL == 1
\* mark_as_seen(ttl=86400)
DEDUP_TTL == 2
\* cache_service.set(f"triage_result_{query_id}", response, ttl=86400)
RESULT_TTL == 2
\* cache_service.set(cache_key, result, ttl=3600) in GroqService
ANALYSIS_TTL == 1

----------------------------------------------------------------------------
(* Python values *)

None == [kind |-> "None"]
PyInt(n) == [kind |-> "int", n |-> n]
PyBool(b) == [kind |-> "bool", b |-> b]
\* a str is the sequence of its characters
Str(s) == [kind |-> "str", s |-> s]

\* Python truthiness of a value, as `if cached:` evaluates it
Truthy(v) ==
    /\ v # None
    /\ v # PyInt(0)
    /\ v # PyBool(FALSE)

\* an optional int argument: <<>> is None, <<n>> is the int n
NoArg == <<>>
Arg(n) == <<n>>

\* `a or b` on an optional int
OrDefault(a, b) == IF a = NoArg \/ a[1] = 0 THEN b ELSE a[1]

----------------------------------------------------------------------------
(* CacheService: self.cache is a dict key -> {value, created_at,           *)
(* expires_at, hits}, here the sequence of its items.                      *)

Has(c, key) == \E i \in 1..Len(c) : c[i].key = key

IndexOf(c, key) == CHOOSE i \in 1..Len(c) : c[i].key = key

Lookup(c, key) == c[IndexOf(c, key)]

KeysOf(c) == {c[i].key : i \in 1..Len(c)}

\* del self.cache[key]
DelKey(c, key) == SelectSeq(c, LAMBDA e : e.key # key)

\* self.cache[key] = entry: an existing key keeps its position
\* a store that keeps the entry a key already has
PutEntryKeepingOld(c, e) == IF Has(c, e.key) THEN c ELSE Append(c, e)

PutEntry(c, e) ==
    IF Has(c, e.key) THEN [c EXCEPT ![IndexOf(c, e.key)] = e]
    ELSE Append(c, e)

\* a wrong eviction order: the first maximal item (the newest)
newest_key(c) ==
    LET i == CHOOSE i \in 1..Len(c) :
                 /\ \A j \in 1..Len(c) : c[i].created_at >= c[j].created_at
                 /\ \A j \in 1..(i - 1) : c[j].created_at < c[i].created_at
    IN c[i].key

\* min(self.cache.keys(), key=created_at): the first minimal item
oldest_key(c) ==
    LET i == CHOOSE i \in 1..Len(c) :
                 /\ \A j \in 1..Len(c) : c[i].created_at <= c[j].created_at
                 /\ \A j \in 1..(i - 1) : c[j].created_at > c[i].created_at
    IN c[i].key

evict_oldest(c) == IF c = <<>> THEN c ELSE DelKey(c, oldest_key(c))

\* the dict after the size check of set
after_size_check(c) == IF Len(c) >= max_size THEN evict_oldest(c) ELSE c

\* CacheService.set; t1 and t2 are its two clock reads
cache_set(c, key, value, ttl, t1, t2) ==
    LET c1 == after_size_check(c)
        ttl1 == OrDefault(ttl, CACHE_TTL)
        expires_at == t1 + ttl1
    IN PutEntry(c1, [key |-> key, value |-> value, created_at |-> t2,
                     expires_at |-> expires_at, hits |-> 0])

\* a wrong expiry test: expired already at the expiry instant
ExpiredAtInstant(e, t) == t >= e.expires_at

\* the entry is expired at clock t: datetime.now() > entry['expires_at']
Expired(e, t) == t > e.expires_at

\* CacheService.get at clock t: the dict afterwards and the value returned
\* a get with sliding expiration
cache_get_sliding(c, key, t) ==
    IF ~Has(c, key) THEN [cache |-> c, ret |-> None]
    ELSE LET e == Lookup(c, key) IN
         IF Expired(e, t) THEN [cache |-> DelKey(c, key), ret |-> None]
         ELSE [cache |-> [c EXCEPT ![IndexOf(c, key)].hits = e.hits + 1,
                                   ![IndexOf(c, key)].expires_at =
                                       t + (e.expires_at - e.created_at)],
               ret |-> e.value]

\* a get that, finding its key expired, sweeps every expired entry
cache_get_sweeping(c, key, t) ==
    IF ~Has(c, key) THEN [cache |-> c, ret |-> None]
    ELSE LET e == Lookup(c, key) IN
         IF Expired(e, t)
         THEN [cache |-> SelectSeq(c, LAMBDA other : ~Expired(other, t)),
               ret |-> None]
         ELSE [cache |-> [c EXCEPT ![IndexOf(c, key)].hits = e.hits + 1],
               ret |-> e.value]

cache_get(c, key, t) ==
    IF ~Has(c, key) THEN [cache |-> c, ret |-> None]
    ELSE LET e == Lookup(c, key) IN
         IF Expired(e, t) THEN [cache |-> DelKey(c, key), ret |-> None]
         ELSE [cache |-> [c EXCEPT ![IndexOf(c, key)].hits = e.hits + 1],
               ret |-> e.value]

\* CacheService.exists
cache_exists(c, key, t) ==
    LET g == cache_get(c, key, t) IN [cache |-> g.cache, ret |-> PyBool(g.ret # None)]

\* CacheService.delete
\* a delete that reports True whatever it found
cache_delete_reporting_true(c, key) ==
    [cache |-> DelKey(c, key), ret |-> PyBool(TRUE)]

cache_delete(c, key) ==
    IF Has(c, key) THEN [cache |-> DelKey(c, key), ret |-> PyBool(TRUE)]
    ELSE [cache |-> c, ret |-> PyBool(FALSE)]

RECURSIVE sum_hits(_)
sum_hits(c) == IF c = <<>> THEN 0 ELSE Head(c).hits + sum_hits(Tail(c))

\* the dict get_stats returns
Stats(c) ==
    [kind |-> "dict", size |-> Len(c), max_size |-> max_size,
     total_hits |-> sum_hits(c), keys |-> [i \in 1..Len(c) |-> c[i].key]]

\* a get_stats that resets the hit counts it has reported
get_stats_resetting(c) ==
    [cache |-> [i \in 1..Len(c) |-> [c[i] EXCEPT !.hits = 0]],
     ret |-> Stats(c)]

\* CacheService.get_stats
get_stats(c) == [cache |-> c, ret |-> Stats(c)]

\* the hit counters stay within the bound after a get
HitsWithinBound(c) == \A i \in 1..Len(c) : c[i].hits <= MaxHits

\* whether v['expires_at'] can be read: on a dict without that key the
\* subscript raises KeyError
HasExpiry(v) == "expires_at" \in DOMAIN v

\* CacheService.get on a store that may hold an entry without expires_at:
\* the subscript raises and the except branch returns None
cache_get_any(c, key, t) ==
    IF Has(c, key) /\ ~HasExpiry(Lookup(c, key))
    THEN [cache |-> c, ret |-> None]
    ELSE cache_get(c, key, t)

\* CacheService.exists on such a store
cache_exists_any(c, key, t) ==
    LET g == cache_get_any(c, key, t) IN
    [cache |-> g.cache, ret |-> PyBool(g.ret # None)]

----------------------------------------------------------------------------
(* Persistence: pickle.dump(self.cache) writes the items of the dict in    *)
(* order, each as the pair of its key and the tuple of its fields;         *)
(* pickle.load rebuilds the dict from them.                                *)

pickle_dump(c) ==
    [i \in 1..Len(c) |->
        <<c[i].key, <<c[i].value, c[i].created_at, c[i].expires_at, c[i].hits>>>>]

\* an item whose tuple has no expires_at is rebuilt without it
pickle_load(items) ==
    [i \in 1..Len(items) |->
        IF Len(items[i][2]) = 4
        THEN [key |-> items[i][1], value |-> items[i][2][1],
              created_at |-> items[i][2][2], expires_at |-> items[i][2][3],
              hits |-> items[i][2][4]]
        ELSE [key |-> items[i][1], value |-> items[i][2][1],
              created_at |-> items[i][2][2], hits |-> items[i][2][3]]]

\* a file of data/cache: absent, a pickle of a cache, or unreadable bytes
NoFile == [state |-> "missing", items |-> <<>>]
CorruptFile == [state |-> "corrupt", items |-> <<>>]
PickleFile(c) == [state |-> "ok", items |-> pickle_dump(c)]

\* a load that forgets to remove the expired entries
keep_expired(c, t) == c

\* the list comprehension of load_from_disk and its deletions
drop_expired(c, t) == SelectSeq(c, LAMBDA e : ~Expired(e, t))

\* a load that falls back to an empty cache and reports success
load_or_empty(c, file, t) ==
    IF file.state = "ok"
    THEN [cache |-> drop_expired(pickle_load(file.items), t),
          ret |-> PyBool(TRUE)]
    ELSE [cache |-> <<>>, ret |-> PyBool(TRUE)]

\* CacheService.load_from_disk at clock t, given the file's state: the
\* unpickled object is assigned to self.cache before the expired keys are
\* collected, and the subscript of the collection may raise
load_from_disk(c, file, t) ==
    IF file.state = "missing" THEN [cache |-> c, ret |-> PyBool(FALSE)]
    ELSE IF file.state = "corrupt" THEN [cache |-> c, ret |-> PyBool(FALSE)]
    ELSE LET loaded == pickle_load(file.items) IN
         IF \E i \in 1..Len(loaded) : ~HasExpiry(loaded[i])
         THEN [cache |-> loaded, ret |-> PyBool(FALSE)]
         ELSE [cache |-> drop_expired(loaded, t), ret |-> PyBool(TRUE)]

----------------------------------------------------------------------------
(* DeduplicationService.generate_query_id *)

\* a key that a content dict does not carry
Absent == [kind |-> "absent"]

\* content.get(key, default)
dict_get(v, default) == IF v = Absent THEN default ELSE v

\* str(x), for the values a content carries as symptoms
str(v) ==
    CASE v.kind = "str" -> v.s
      [] v.kind = "None" -> <<"N", "o", "n", "e">>

\* str.lower(), on the alphabet of the model
lower_char(ch) ==
    CASE ch = "F" -> "f"
      [] ch = "N" -> "n"
      [] ch = "E" -> "e"
      [] ch = "M" -> "m"
      [] OTHER -> ch

lower(s) == [i \in 1..Len(s) |-> lower_char(s[i])]

RECURSIVE lstrip(_)
lstrip(s) == IF s # <<>> /\ Head(s) = " " THEN lstrip(Tail(s)) ELSE s

RECURSIVE rstrip(_)
rstrip(s) ==
    IF s # <<>> /\ s[Len(s)] = " " THEN rstrip(SubSeq(s, 1, Len(s) - 1)) ELSE s

\* str.strip()
strip(s) == rstrip(lstrip(s))

english == <<"e", "n", "g", "l", "i", "s", "h">>

\* the dict `normalized` of generate_query_id
normalized(content) ==
    [symptoms |-> Str(strip(lower(str(dict_get(content.symptoms, Str(<<>>)))))),
     age |-> dict_get(content.age, None),
     gender |-> dict_get(content.gender, None),
     language |-> dict_get(content.language, Str(english))]

\* json.dumps of one value: null, a number or a quoted string
json_value(v) ==
    CASE v.kind = "None" -> [json |-> "null"]
      [] v.kind = "int" -> [json |-> "number", n |-> v.n]
      [] v.kind = "str" -> [json |-> "string", s |-> v.s]

\* a serialisation that leaves the age out
json_dumps_without_age(d) ==
    << <<"gender", json_value(d.gender)>>,
       <<"language", json_value(d.language)>>,
       <<"symptoms", json_value(d.symptoms)>> >>

\* json.dumps(normalized, sort_keys=True): the members in key order
json_dumps(d) ==
    << <<"age", json_value(d.age)>>, <<"gender", json_value(d.gender)>>,
       <<"language", json_value(d.language)>>,
       <<"symptoms", json_value(d.symptoms)>> >>

\* hashlib.sha256(...).hexdigest(), taken to be injective
sha256(text) == [sha256 |-> text]

generate_query_id(content) == sha256(json_dumps(normalized(content)))

----------------------------------------------------------------------------
(* DeduplicationService: seen_hashes is a dict query_id -> datetime, here   *)
(* the sequence of its items [key, value].                                  *)

SeenKey(query_id) == <<"query_seen_", query_id>>
ResultKey(query_id) == <<"triage_result_", query_id>>

\* the dict stored under the seen key
SeenValue(t, query_id) == [kind |-> "dict", seen_at |-> t, query_id |-> query_id]

\* a duplicate check that consults the cache only
is_duplicate_cache_only(c, seen, query_id, t) ==
    LET g == cache_get(c, SeenKey(query_id), t) IN
    [cache |-> g.cache, ret |-> Truthy(g.ret)]

\* DeduplicationService.is_duplicate at clock t
is_duplicate(c, seen, query_id, t) ==
    LET g == cache_get(c, SeenKey(query_id), t) IN
    [cache |-> g.cache,
     ret |-> IF Truthy(g.ret) THEN TRUE ELSE Has(seen, query_id)]

\* DeduplicationService.mark_as_seen at clock t
\* a mark that is written to the cache only
mark_as_seen_in_cache_only(c, seen, query_id, t) ==
    [cache |-> cache_set(c, SeenKey(query_id), SeenValue(t, query_id),
                         Arg(DEDUP_TTL), t, t),
     seen |-> seen]

mark_as_seen(c, seen, query_id, t) ==
    [cache |-> cache_set(c, SeenKey(query_id), SeenValue(t, query_id),
                         Arg(DEDUP_TTL), t, t),
     seen |-> PutEntry(seen, [key |-> query_id, value |-> t])]

\* a wrong return value: the duplicate flag itself
is_new_flipped(duplicate) == duplicate

\* `not is_duplicate`, the second component get_or_create_query_id returns
is_new_of(duplicate) == ~duplicate

\* a get_or_create_query_id that marks the query on every call
get_or_create_marking_always(c, seen, content, t) ==
    LET query_id == generate_query_id(content)
        dup == is_duplicate(c, seen, query_id, t)
        m == mark_as_seen(dup.cache, seen, query_id, t)
    IN [cache |-> m.cache, seen |-> m.seen, query_id |-> query_id,
        is_new |-> is_new_of(dup.ret)]

\* DeduplicationService.get_or_create_query_id at clock t
get_or_create_query_id(c, seen, content, t) ==
    LET query_id == generate_query_id(content)
        dup == is_duplicate(c, seen, query_id, t)
        m == IF ~dup.ret THEN mark_as_seen(dup.cache, seen, query_id, t)
             ELSE [cache |-> dup.cache, seen |-> seen]
    IN [cache |-> m.cache, seen |-> m.seen, query_id |-> query_id,
        is_new |-> is_new_of(dup.ret)]

\* str.split(): the set of the whitespace-separated words of s, word being
\* the word read so far
RECURSIVE split(_, _)
split(s, word) ==
    LET done == IF word = <<>> THEN {} ELSE {word} IN
    IF s = <<>> THEN done
    ELSE IF Head(s) = " " THEN done \cup split(Tail(s), <<>>)
    ELSE split(Tail(s), Append(word, Head(s)))

\* set(text.lower().split())
text_set(text) == split(lower(text), <<>>)

\* a float in [0, 1], kept as the fraction num / den
Fraction(num, den) == [num |-> num, den |-> den]

\* similarity >= threshold, threshold given in hundredths
AtLeast(similarity, threshold) ==
    similarity.num * 100 >= threshold * similarity.den

\* DeduplicationService.calculate_text_similarity
calculate_text_similarity(text1, text2) ==
    LET text1_set == text_set(text1)
        text2_set == text_set(text2)
    IN IF text1_set = {} \/ text2_set = {} THEN Fraction(0, 1)
       ELSE Fraction(Cardinality(text1_set \cap text2_set),
                     Cardinality(text1_set \cup text2_set))

\* `similarity = 0.0  # Placeholder` of find_similar_queries
Placeholder == Fraction(0, 1)

\* the loop of find_similar_queries from the i-th item of seen_hashes on
RECURSIVE find_similar_from(_, _, _, _, _, _)
find_similar_from(c, seen, i, threshold, similar_queries, t) ==
    IF i > Len(seen) THEN [cache |-> c, ret |-> similar_queries]
    ELSE LET cached == cache_get(c, SeenKey(seen[i].key), t)
             similarity == Placeholder
         IN find_similar_from(
                cached.cache, seen, i + 1, threshold,
                IF Truthy(cached.ret) /\ AtLeast(similarity, threshold)
                THEN Append(similar_queries, seen[i].key)
                ELSE similar_queries, t)

\* DeduplicationService.find_similar_queries at clock t; symptoms is not read
find_similar_queries(c, seen, symptoms, threshold, t) ==
    find_similar_from(c, seen, 1, threshold, <<>>, t)

----------------------------------------------------------------------------
(* GroqService.analyze_symptoms and the triage route handler *)

\* the analysis dicts: the parsed LLM answer, whose fields may be of types
\* TriageResponse rejects, and the keyword fallback
LLMAnalysis(well_typed) ==
    [kind |-> "dict", source |-> "llm", well_typed |-> well_typed]
fallback_analysis == [kind |-> "dict", source |-> "fallback", well_typed |-> TRUE]

\* f"symptom_analysis_{symptoms}_{patient_info}_{language}"
AnalysisKey(request) ==
    <<"symptom_analysis_",
      <<request.symptoms, request.patient_info, request.language>> >>

\* GroqService.analyze_symptoms: the call starts at clock t1; when the API is
\* called it answers at clock t2, with outcome llm
groq_analyze_symptoms(c, client, request, llm, t1, t2) ==
    IF ~client
    THEN [cache |-> c, ret |-> fallback_analysis, llm_failed |-> FALSE,
          t_end |-> t1]
    ELSE LET g == cache_get(c, AnalysisKey(request), t1) IN
         IF Truthy(g.ret)
         THEN [cache |-> g.cache, ret |-> g.ret, llm_failed |-> FALSE,
               t_end |-> t1]
         ELSE IF llm = "raises"
         THEN [cache |-> g.cache, ret |-> fallback_analysis,
               llm_failed |-> TRUE, t_end |-> t2]
         ELSE LET result == LLMAnalysis(llm = "ok") IN
              [cache |-> cache_set(g.cache, AnalysisKey(request), result,
                                   Arg(ANALYSIS_TTL), t2, t2),
               ret |-> result, llm_failed |-> FALSE, t_end |-> t2]

\* the query_content dict of the handler
query_content(request) ==
    [symptoms |-> request.symptoms,
     age |-> IF request.patient_info # None THEN request.patient_info.age
             ELSE None,
     gender |-> IF request.patient_info # None THEN request.patient_info.gender
                ELSE None,
     language |-> request.language]

\* the query id of a request
QueryIdOf(request) == generate_query_id(query_content(request))

\* TriageResponse(...) built from the analysis at clock t
TriageResponse(analysis, t) ==
    [kind |-> "TriageResponse", source |-> analysis.source, timestamp |-> t]

\* a handler that answers every duplicate from the cache
return_cached_always(is_new, cached_result) == ~is_new

\* `if not is_new: ... if cached_result: return cached_result`
return_cached(is_new, cached_result) == ~is_new /\ Truthy(cached_result)

\* a handler that does not store its response
response_not_cached(c, query_id, response, t) == c

\* cache_service.set(f"triage_result_{query_id}", response, ttl=86400)
response_cached(c, query_id, response, t) ==
    cache_set(c, ResultKey(query_id), response, Arg(RESULT_TTL), t, t)

\* what one request did: attempted = the computation was started,
\* status = "ok" (a response was returned) or "error" (HTTPException 500),
\* stored = the response was written under the result key
Outcome(c, q, request, attempted, llm_failed, status, ret, stored, t) ==
    [cache |-> c, seen |-> q.seen, t_end |-> t,
     last |-> [op |-> "analyze", request |-> request,
               query_id |-> q.query_id,
               is_new |-> q.is_new, attempted |-> attempted,
               llm_failed |-> llm_failed, status |-> status, ret |-> ret,
               stored |-> stored]]

\* the handler analyze_symptoms of routes/triage.py
analyze_symptoms(c, seen, client, request, llm, t1, t2) ==
    LET q == get_or_create_query_id(c, seen, query_content(request), t1)
        hit == IF q.is_new THEN [cache |-> q.cache, ret |-> None]
               ELSE cache_get(q.cache, ResultKey(q.query_id), t1)
    IN IF return_cached(q.is_new, hit.ret)
       THEN Outcome(hit.cache, q, request, FALSE, FALSE, "ok", hit.ret, FALSE,
                    t1)
       ELSE LET a == groq_analyze_symptoms(hit.cache, client, request, llm,
                                           t1, t2)
            IN IF ~a.ret.well_typed
               THEN Outcome(a.cache, q, request, TRUE, a.llm_failed, "error",
                            None, FALSE, a.t_end)
               ELSE LET response == TriageResponse(a.ret, a.t_end) IN
                    Outcome(response_cached(a.cache, q.query_id, response,
                                            a.t_end),
                            q, request, TRUE, a.llm_failed, "ok", response,
                            TRUE, a.t_end)

----------------------------------------------------------------------------
(* DatabaseService.save_chat_message: chat_table is the DynamoDB chat       *)
(* table, here the sequence of its items, one per message_id.               *)

\* content = {'user_id': user_id, 'message': message}: a dict without the
\* keys generate_query_id reads
chat_content(user_id, message) ==
    [symptoms |-> Absent, age |-> Absent, gender |-> Absent,
     language |-> Absent, user_id |-> Str(user_id), message |-> Str(message)]

\* the item save_chat_message builds at clock t
chat_item(message_id, user_id, message, response, t) ==
    [message_id |-> message_id, user_id |-> user_id, message |-> message,
     response |-> response, created_at |-> t]

\* Table.put_item(Item=item): the item replaces the one of its message_id
put_item(table, item) ==
    IF \E i \in 1..Len(table) : table[i].message_id = item.message_id
    THEN [i \in 1..Len(table) |->
            IF table[i].message_id = item.message_id THEN item ELSE table[i]]
    ELSE Append(table, item)

\* DatabaseService.save_chat_message at clock t; put says whether put_item
\* returns or raises
save_chat_message(c, seen, table, user_id, message, response, put, t) ==
    LET q == get_or_create_query_id(c, seen, chat_content(user_id, message), t)
        message_id == q.query_id
        item == chat_item(message_id, user_id, message, response, t)
    IN IF ~q.is_new
       THEN [cache |-> q.cache, seen |-> q.seen, table |-> table,
             message_id |-> message_id, is_new |-> FALSE,
             ret |-> message_id, wrote |-> FALSE]
       ELSE IF put = "raises"
       THEN [cache |-> q.cache, seen |-> q.seen, table |-> table,
             message_id |-> message_id, is_new |-> TRUE,
             ret |-> Str("error"), wrote |-> FALSE]
       ELSE [cache |-> q.cache, seen |-> q.seen,
             table |-> put_item(table, item),
             message_id |-> message_id, is_new |-> TRUE,
             ret |-> message_id, wrote |-> TRUE]

----------------------------------------------------------------------------
(* History kept for the properties *)

\* the operation of the last step: its name, the key (or file) it was on,
\* what it returned, the number of entries stored before it; for a set also
\* the value it was given, whether the key was stored before it, and the key
\* its size check evicted
NoKey == "-"
Op(op, key, ret, c) ==
    [op |-> op, key |-> key, ret |-> ret, size_before |-> Len(c),
     value |-> None, was_stored |-> FALSE, evicted |-> NoKey]
SetOp(key, value, c, evicted) ==
    [op |-> "set", key |-> key, ret |-> PyBool(TRUE), size_before |-> Len(c),
     value |-> value, was_stored |-> Has(c, key), evicted |-> evicted]

\* the key the size check of a set on c removes, if any
EvictedBy(c) ==
    IF KeysOf(c) = KeysOf(after_size_check(c)) THEN NoKey ELSE oldest_key(c)

----------------------------------------------------------------------------
(* The cache API driven by an arbitrary caller *)

Keys == {"k1", "k2", "k3"}
Values == {None, PyInt(1)}
TTLArgs == {NoArg, Arg(0), Arg(2)}
Files == {"cache.pkl"}
\* the clock advance between the two datetime.now() reads of one set
ClockSkews == {0, 1}

NoThreads == <<>>

Init ==
    /\ now = 0
    /\ cache = <<>>
    /\ disk = [f \in Files |-> NoFile]
    /\ saved = [f \in Files |-> <<>>]
    /\ last = Op("init", NoKey, None, <<>>)
    /\ seen_hashes = <<>>
    /\ has_client = TRUE
    /\ failed = {}
    /\ threads = NoThreads
    /\ chat_table = <<>>

\* time passes between operations
Tick ==
    /\ now < MaxTime
    /\ now' = now + 1
    /\ last' = Op("tick", NoKey, None, cache)
    /\ UNCHANGED <<cache, disk, saved, seen_hashes, has_client, failed, threads,
                 chat_table>>

\* cache.set(key, value, ttl); the clock may advance by d between its reads
Set(key, value, ttl, d) ==
    /\ now + d <= MaxTime
    /\ now' = now + d
    /\ cache' = cache_set(cache, key, value, ttl, now, now + d)
    /\ last' = SetOp(key, value, cache, EvictedBy(cache))
    /\ UNCHANGED <<disk, saved, seen_hashes, has_client, failed, threads,
                 chat_table>>

\* cache.get(key)
Get(key) ==
    LET g == cache_get(cache, key, now) IN
    /\ HitsWithinBound(g.cache)
    /\ cache' = g.cache
    /\ last' = Op("get", key, g.ret, cache)
    /\ UNCHANGED <<now, disk, saved, seen_hashes, has_client, failed, threads,
                 chat_table>>

\* cache.exists(key)
Exists(key) ==
    LET g == cache_exists(cache, key, now) IN
    /\ HitsWithinBound(g.cache)
    /\ cache' = g.cache
    /\ last' = Op("exists", key, g.ret, cache)
    /\ UNCHANGED <<now, disk, saved, seen_hashes, has_client, failed, threads,
                 chat_table>>

\* cache.delete(key)
Delete(key) ==
    LET g == cache_delete(cache, key) IN
    /\ cache' = g.cache
    /\ last' = Op("delete", key, g.ret, cache)
    /\ UNCHANGED <<now, disk, saved, seen_hashes, has_client, failed, threads,
                 chat_table>>

\* cache.clear()
Clear ==
    /\ cache' = <<>>
    /\ last' = Op("clear", NoKey, None, cache)
    /\ UNCHANGED <<now, disk, saved, seen_hashes, has_client, failed, threads,
                 chat_table>>

\* cache.get_stats()
GetStats ==
    LET g == get_stats(cache) IN
    /\ cache' = g.cache
    /\ last' = Op("get_stats", NoKey, g.ret, cache)
    /\ UNCHANGED <<now, disk, saved, seen_hashes, has_client, failed, threads,
                 chat_table>>

NextCache ==
    \/ Tick
    \/ \E key \in Keys, value \in Values, ttl \in TTLArgs, d \in ClockSkews :
          Set(key, value, ttl, d)
    \/ \E key \in Keys : Get(key)
    \/ \E key \in Keys : Exists(key)
    \/ \E key \in Keys : Delete(key)
    \/ Clear

Spec == Init /\ [][NextCache]_vars

----------------------------------------------------------------------------
(* The cache with its persistence: a store is filled, saved, replaced by a  *)
(* fresh one and loaded.                                                    *)

PersistKeys == {"k1", "k2"}
PersistTTLArgs == {NoArg, Arg(2)}
SaveOutcomes == {"ok", "open_fails", "dump_fails"}

\* cache.save_to_disk(file): open(filepath, 'wb') may fail and leave the file
\* as it was; pickle.dump may fail after the file was truncated
SaveToDisk(file, outcome) ==
    /\ disk' = [disk EXCEPT ![file] =
                  IF outcome = "ok" THEN PickleFile(cache)
                  ELSE IF outcome = "dump_fails" THEN CorruptFile
                  ELSE @]
    /\ saved' = [saved EXCEPT ![file] = IF outcome = "ok" THEN cache ELSE @]
    /\ last' = Op("save", file, PyBool(outcome = "ok"), cache)
    /\ UNCHANGED <<now, cache, seen_hashes, has_client, failed, threads,
                 chat_table>>

\* cache.load_from_disk(file)
LoadFromDisk(file) ==
    LET g == load_from_disk(cache, disk[file], now) IN
    /\ cache' = g.cache
    /\ last' = Op("load", file, g.ret, cache)
    /\ UNCHANGED <<now, disk, saved, seen_hashes, has_client, failed, threads,
                 chat_table>>

\* a fresh store: CacheService() starts with self.cache = {}
NewStore ==
    /\ cache' = <<>>
    /\ last' = Op("new", NoKey, None, cache)
    /\ UNCHANGED <<now, disk, saved, seen_hashes, has_client, failed, threads,
                 chat_table>>

NextPersist ==
    \/ Tick
    \/ \E key \in PersistKeys, value \in Values, ttl \in PersistTTLArgs :
          Set(key, value, ttl, 0)
    \/ \E file \in Files, outcome \in SaveOutcomes : SaveToDisk(file, outcome)
    \/ \E file \in Files : LoadFromDisk(file)
    \/ NewStore

SpecPersist == Init /\ [][NextPersist]_vars

----------------------------------------------------------------------------
(* The cache with its statistics: a store is filled, read, and asked for    *)
(* get_stats.                                                               *)

NextStats ==
    \/ Tick
    \/ \E key \in PersistKeys, value \in Values, ttl \in PersistTTLArgs :
          Set(key, value, ttl, 0)
    \/ \E key \in PersistKeys : Get(key)
    \/ GetStats

SpecStats == Init /\ [][NextStats]_vars

----------------------------------------------------------------------------
(* The cache with every ttl argument a caller can pass: set(key, value,     *)
(* ttl) takes ttl: Optional[int] and checks neither its sign nor its type.  *)

AnyTTLArgs == {NoArg, Arg(0), Arg(-1), Arg(2)}

NextTTL ==
    \/ Tick
    \/ \E key \in PersistKeys, value \in Values, ttl \in AnyTTLArgs,
          d \in ClockSkews : Set(key, value, ttl, d)
    \/ \E key \in PersistKeys : Get(key)

SpecTTL == Init /\ [][NextTTL]_vars

----------------------------------------------------------------------------
(* The cache in front of a file it did not write in this run: the file of   *)
(* data/cache may be missing, unreadable, the pickle of a cache saved by a  *)
(* service of a larger max_size, or the pickle of a dict whose entries are  *)
(* not cache entries.                                                       *)

\* an entry of a saved cache, created at clock 0
BlobEntry(key, expires_at) ==
    [key |-> key, value |-> PyInt(1), created_at |-> 0,
     expires_at |-> expires_at, hits |-> 0]

\* saved caches: of at most max_size entries, and of max_size + 1 entries
BlobStores ==
    {<<>>,
     <<BlobEntry("k1", 1), BlobEntry("k3", 2)>>,
     <<BlobEntry("k1", 1), BlobEntry("k2", 2), BlobEntry("k3", 2)>>}

\* the pickle of a dict with an entry that has no expires_at
ForeignFile ==
    [state |-> "ok",
     items |-> pickle_dump(<<BlobEntry("k3", 2)>>) \o
               << <<"k1", <<PyInt(1), 0, 0>>>> >>]

Blobs ==
    {NoFile, CorruptFile, ForeignFile} \cup {PickleFile(c) : c \in BlobStores}

InitLoad ==
    /\ now = 0
    /\ cache = <<>>
    /\ disk \in [Files -> Blobs]
    /\ saved = [f \in Files |-> <<>>]
    /\ last = Op("init", NoKey, None, <<>>)
    /\ seen_hashes = <<>>
    /\ has_client = TRUE
    /\ failed = {}
    /\ threads = NoThreads
    /\ chat_table = <<>>

\* cache.get(key)
GetAny(key) ==
    \E g \in {cache_get_any(cache, key, now)} :
    /\ HitsWithinBound(g.cache)
    /\ cache' = g.cache
    /\ last' = Op("get", key, g.ret, cache)
    /\ UNCHANGED <<now, disk, saved, seen_hashes, has_client, failed, threads,
                 chat_table>>

\* cache.exists(key)
ExistsAny(key) ==
    \E g \in {cache_exists_any(cache, key, now)} :
    /\ HitsWithinBound(g.cache)
    /\ cache' = g.cache
    /\ last' = Op("exists", key, g.ret, cache)
    /\ UNCHANGED <<now, disk, saved, seen_hashes, has_client, failed, threads,
                 chat_table>>

NextLoad ==
    \/ Tick
    \/ \E key \in PersistKeys, value \in Values, ttl \in PersistTTLArgs :
          Set(key, value, ttl, 0)
    \/ \E key \in Keys : GetAny(key)
    \/ \E key \in Keys : ExistsAny(key)
    \/ \E key \in Keys : Delete(key)
    \/ Clear
    \/ \E file \in Files : LoadFromDisk(file)

SpecLoad == InitLoad /\ [][NextLoad]_vars

----------------------------------------------------------------------------
(* The triage flow: requests arrive one after the other (the handlers are   *)
(* coroutines without an await), the clock advances between and during them *)

flu == <<"f", "l", "u">>
NoPatient == None
Patient(age) == [kind |-> "PatientInfo", age |-> age, gender |-> None]
Request(symptoms, patient_info) ==
    [symptoms |-> Str(symptoms), patient_info |-> patient_info,
     language |-> Str(english)]

\* two requests, of different query ids
Requests ==
    {Request(<<"F", "l", "u", " ">>, NoPatient),
     Request(flu, Patient(PyInt(30)))}

LLMOutcomes == {"ok", "bad_fields", "raises"}
LLMDurations == {0, 1}

\* the record of the last step when it was not a request
NoRequest ==
    [op |-> "init", request |-> None, query_id |-> None,
     is_new |-> FALSE, attempted |-> FALSE,
     llm_failed |-> FALSE, status |-> "ok", ret |-> None, stored |-> FALSE]

InitTriage ==
    /\ now = 0
    /\ cache = <<>>
    /\ disk = [f \in Files |-> NoFile]
    /\ saved = [f \in Files |-> <<>>]
    /\ last = NoRequest
    /\ seen_hashes = <<>>
    /\ has_client \in BOOLEAN
    /\ failed = {}
    /\ threads = NoThreads
    /\ chat_table = <<>>

\* time passes between two requests
Wait ==
    /\ now < MaxTriageTime
    /\ now' = now + 1
    /\ last' = [NoRequest EXCEPT !.op = "wait"]
    /\ UNCHANGED <<cache, disk, saved, seen_hashes, has_client, failed, threads,
                 chat_table>>

\* a caller of deduplication_service.get_or_create_query_id(content)
GetOrCreateQueryId(request) ==
    \E q \in {get_or_create_query_id(cache, seen_hashes,
                                      query_content(request), now)} :
    /\ HitsWithinBound(q.cache)
    /\ cache' = q.cache
    /\ seen_hashes' = q.seen
    /\ last' = [NoRequest EXCEPT !.op = "get_or_create",
                                 !.request = request,
                                 !.query_id = q.query_id, !.is_new = q.is_new]
    /\ UNCHANGED <<now, disk, saved, has_client, failed, threads, chat_table>>

\* POST /analyze, the LLM taking d clock units when it is called; failed
\* collects the ids whose first request raised and that have had no response
\* stored since
AnalyzeSymptoms(request, llm, d) ==
    \E o \in {analyze_symptoms(cache, seen_hashes, has_client, request, llm,
                                now, now + d)} :
    /\ now + d <= MaxTriageTime
    /\ o.t_end = now + d
    /\ HitsWithinBound(o.cache)
    /\ now' = o.t_end
    /\ cache' = o.cache
    /\ seen_hashes' = o.seen
    /\ last' = o.last
    /\ failed' = IF o.last.status = "error" /\ o.last.is_new
                 THEN failed \cup {o.last.query_id}
                 ELSE IF o.last.stored THEN failed \ {o.last.query_id}
                 ELSE failed
    /\ UNCHANGED <<disk, saved, has_client, threads, chat_table>>

NextTriage ==
    \/ Wait
    \/ \E request \in Requests : GetOrCreateQueryId(request)
    \/ \E request \in Requests, llm \in LLMOutcomes, d \in LLMDurations :
          AnalyzeSymptoms(request, llm, d)

SpecTriage == InitTriage /\ [][NextTriage]_vars

----------------------------------------------------------------------------
(* The similarity scan: queries are marked as seen, time passes, and a      *)
(* caller asks for the queries similar to a text.                           *)

\* reference texts: one with the words of the requests, one with one more
Texts == {flu, <<"f", "l", "u", " ", "m">>}

\* thresholds in hundredths; 0.9 is the default
Thresholds == {0, 50, 90}

\* a caller of deduplication_service.find_similar_queries(symptoms, threshold)
FindSimilarQueries(symptoms, threshold) ==
    \E o \in {find_similar_queries(cache, seen_hashes, symptoms, threshold,
                                    now)} :
    /\ HitsWithinBound(o.cache)
    /\ cache' = o.cache
    /\ last' = [NoRequest EXCEPT !.op = "find_similar",
                                 !.request = [symptoms |-> symptoms,
                                              threshold |-> threshold],
                                 !.ret = o.ret]
    /\ UNCHANGED <<now, disk, saved, seen_hashes, has_client, failed, threads,
                 chat_table>>

NextSimilar ==
    \/ Wait
    \/ \E request \in Requests : GetOrCreateQueryId(request)
    \/ \E symptoms \in Texts, threshold \in Thresholds :
          FindSimilarQueries(symptoms, threshold)

SpecSimilar == InitTriage /\ [][NextSimilar]_vars

----------------------------------------------------------------------------
(* Chat storage: messages of several users are saved one after the other,   *)
(* the write to the table succeeding or raising.                            *)

UserIds == {"u1", "u2"}
Messages == {"fever", "cough"}
Responses == {"rest"}
PutOutcomes == {"ok", "raises"}

\* db_service.save_chat_message(user_id, message, response); failed collects
\* the message ids whose write raised and that have not been written since
SaveChatMessage(user_id, message, response, put) ==
    \E o \in {save_chat_message(cache, seen_hashes, chat_table, user_id,
                                 message, response, put, now)} :
    /\ HitsWithinBound(o.cache)
    /\ cache' = o.cache
    /\ seen_hashes' = o.seen
    /\ chat_table' = o.table
    /\ last' = [NoRequest EXCEPT !.op = "save_chat_message",
                                 !.request = [user_id |-> user_id,
                                              message |-> message],
                                 !.query_id = o.message_id,
                                 !.is_new = o.is_new,
                                 !.attempted = o.is_new,
                                 !.status = IF o.ret = Str("error")
                                            THEN "error" ELSE "ok",
                                 !.ret = o.ret,
                                 !.stored = o.wrote]
    /\ failed' = IF o.is_new /\ ~o.wrote THEN failed \cup {o.message_id}
                 ELSE IF o.wrote THEN failed \ {o.message_id}
                 ELSE failed
    /\ UNCHANGED <<now, disk, saved, has_client, threads>>

NextChat ==
    \/ Wait
    \/ \E user_id \in UserIds, message \in Messages, response \in Responses,
          put \in PutOutcomes :
          SaveChatMessage(user_id, message, response, put)

SpecChat == InitTriage /\ [][NextChat]_vars

----------------------------------------------------------------------------
(* Concurrent callers of get_or_create_query_id: the method takes no lock,  *)
(* so between its is_duplicate and its mark_as_seen another caller may run. *)

Threads == 1..NThreads

Idle == [pc |-> "idle", request |-> None, query_id |-> None, is_new |-> FALSE]

InitRace ==
    /\ now = 0
    /\ cache = <<>>
    /\ disk = [f \in Files |-> NoFile]
    /\ saved = [f \in Files |-> <<>>]
    /\ last = NoRequest
    /\ seen_hashes = <<>>
    /\ has_client = TRUE
    /\ failed = {}
    /\ threads = [th \in Threads |-> Idle]
    /\ chat_table = <<>>

\* thread th enters get_or_create_query_id(content): generate_query_id and
\* is_duplicate; a duplicate returns (query_id, False) at once
ThreadIsDuplicate(th, request) ==
    \E dup \in {is_duplicate(cache, seen_hashes, QueryIdOf(request), now)} :
    /\ threads[th].pc = "idle"
    /\ HitsWithinBound(dup.cache)
    /\ cache' = dup.cache
    /\ threads' = [threads EXCEPT ![th] =
                     [pc |-> IF dup.ret THEN "returned" ELSE "checked",
                      request |-> request, query_id |-> QueryIdOf(request),
                      is_new |-> FALSE]]
    /\ last' = [NoRequest EXCEPT !.op = "is_duplicate"]
    /\ UNCHANGED <<now, disk, saved, seen_hashes, has_client, failed,
                 chat_table>>

\* thread th, which found no duplicate, runs mark_as_seen and returns
\* (query_id, True)
ThreadMarkAsSeen(th) ==
    \E m \in {mark_as_seen(cache, seen_hashes, threads[th].query_id, now)} :
    /\ threads[th].pc = "checked"
    /\ cache' = m.cache
    /\ seen_hashes' = m.seen
    /\ threads' = [threads EXCEPT ![th].pc = "returned",
                                  ![th].is_new = is_new_of(FALSE)]
    /\ last' = [NoRequest EXCEPT !.op = "mark_as_seen"]
    /\ UNCHANGED <<now, disk, saved, has_client, failed, chat_table>>

\* time passes
WaitRace ==
    /\ now < MaxTriageTime
    /\ now' = now + 1
    /\ last' = [NoRequest EXCEPT !.op = "wait"]
    /\ UNCHANGED <<cache, disk, saved, seen_hashes, has_client, failed, threads,
                 chat_table>>

NextRace ==
    \/ WaitRace
    \/ \E th \in Threads, request \in Requests : ThreadIsDuplicate(th, request)
    \/ \E th \in Threads : ThreadMarkAsSeen(th)

SpecRace == InitRace /\ [][NextRace]_vars

----------------------------------------------------------------------------
(* generate_query_id on its own: a caller builds two content dicts, each    *)
(* written as the sequence of its items, and fingerprints both.             *)

FieldNames == {"symptoms", "age", "gender", "language"}

\* the dict a literal with these items denotes: key -> value, Absent for
\* a key that is not written, the last value for a key written twice
dict_of(items) ==
    [k \in FieldNames |->
        IF \E i \in 1..Len(items) : items[i][1] = k
        THEN LET i == CHOOSE i \in 1..Len(items) :
                        /\ items[i][1] = k
                        /\ \A j \in (i + 1)..Len(items) : items[j][1] # k
             IN items[i][2]
        ELSE Absent]

\* the items of the fields c carries, written in the given key order
ItemsOf(c, order) ==
    SelectSeq([i \in 1..Len(order) |-> <<order[i], c[order[i]]>>],
              LAMBDA it : it[2] # Absent)

SymptomOrder == <<"symptoms", "age", "gender", "language">>
LanguageOrder == <<"language", "gender", "age", "symptoms">>
KeyOrders == {SymptomOrder, LanguageOrder}

SymptomsValues == {Absent, None, Str(<<"F", "l", "u", " ">>), Str(flu)}
AgeValues == {Absent, None, PyInt(30), PyInt(31)}
GenderValues == {Absent, None, Str(<<"M">>)}
LanguageValues ==
    {Absent, None, Str(<<"E", "n", "g", "l", "i", "s", "h">>), Str(english)}

FieldValues ==
    [symptoms : SymptomsValues, age : AgeValues, gender : GenderValues,
     language : LanguageValues]

\* the dicts fingerprinted first, and those they are compared with
FirstContents == {ItemsOf(c, SymptomOrder) : c \in FieldValues}
SecondContents == {ItemsOf(c, order) : c \in FieldValues, order \in KeyOrders}

NoFingerprint ==
    [op |-> "init", a |-> <<>>, b |-> <<>>, id_a |-> None, id_b |-> None]

InitFingerprint ==
    /\ now = 0
    /\ cache = <<>>
    /\ disk = [f \in Files |-> NoFile]
    /\ saved = [f \in Files |-> <<>>]
    /\ last = NoFingerprint
    /\ seen_hashes = <<>>
    /\ has_client = TRUE
    /\ failed = {}
    /\ threads = NoThreads
    /\ chat_table = <<>>

\* generate_query_id(a) and generate_query_id(b)
GenerateQueryIds(a, b) ==
    /\ last' = [op |-> "generate_query_id", a |-> a, b |-> b,
                id_a |-> generate_query_id(dict_of(a)),
                id_b |-> generate_query_id(dict_of(b))]
    /\ UNCHANGED <<now, cache, disk, saved, seen_hashes, has_client, failed,
                   threads,
                 chat_table>>

\* one pair of contents is fingerprinted in a run
NextFingerprint ==
    /\ last = NoFingerprint
    /\ \E a \in FirstContents, b \in SecondContents : GenerateQueryIds(a, b)

SpecFingerprint == InitFingerprint /\ [][NextFingerprint]_vars

----------------------------------------------------------------------------
(* Concurrent callers of the cache: CacheService takes no lock, so a thread *)
(* may be preempted between the statements of set, get, delete and          *)
(* _evict_oldest.  Each thread runs one call; the clock stands still.       *)

\* the calls a thread may make
Call(op, key, value) == [op |-> op, key |-> key, value |-> value]
Calls ==
    {Call("set", key, PyInt(1)) : key \in Keys}
        \cup {Call(op, key, None) : op \in {"get", "delete"}, key \in PersistKeys}

\* an entry written by set(key, value) with the default TTL at clock t
NewEntry(key, value, t) ==
    [key |-> key, value |-> value, created_at |-> t,
     expires_at |-> t + CACHE_TTL, hits |-> 0]

\* the stores the callers may find: empty, one entry, full
StartStores ==
    {<<>>, <<NewEntry("k1", PyInt(1), 0)>>,
     <<NewEntry("k1", PyInt(1), 0), NewEntry("k2", PyInt(1), 0)>>}

\* a thread: its call, its position in it, the key _evict_oldest chose, and
\* what the call returned ("KeyError" when it raised)
NotStarted ==
    [pc |-> "idle", call |-> Call("none", NoKey, None), victim |-> NoKey,
     ret |-> None]
KeyError == [kind |-> "KeyError"]

InitCacheRace ==
    /\ now = 0
    /\ \E store \in StartStores :
          /\ cache = store
          /\ last = [op |-> "start", store |-> store]
    /\ disk = [f \in Files |-> NoFile]
    /\ saved = [f \in Files |-> <<>>]
    /\ seen_hashes = <<>>
    /\ has_client = TRUE
    /\ failed = {}
    /\ threads = [th \in Threads |-> NotStarted]
    /\ chat_table = <<>>

Returned(th, ret) ==
    threads' = [threads EXCEPT ![th].pc = "done", ![th].ret = ret]
Goto(th, pc) == threads' = [threads EXCEPT ![th].pc = pc]

\* set: `if len(self.cache) >= self.max_size`, and in _evict_oldest the
\* test `if not self.cache` and the min() that picks oldest_key
SetCheck(th, call) ==
    /\ threads[th].pc = "idle"
    /\ call.op = "set"
    /\ threads' = [threads EXCEPT ![th] =
          [pc |-> IF Len(cache) >= max_size /\ cache # <<>>
                  THEN "set_evict" ELSE "set_write",
           call |-> call,
           victim |-> IF Len(cache) >= max_size /\ cache # <<>>
                      THEN oldest_key(cache) ELSE NoKey,
           ret |-> None]]
    /\ UNCHANGED <<now, cache, last, disk, saved, seen_hashes, has_client,
                   failed,
                 chat_table>>

\* set: `del self.cache[oldest_key]`; a KeyError is caught by set, which
\* returns False
SetEvict(th) ==
    /\ threads[th].pc = "set_evict"
    /\ IF Has(cache, threads[th].victim)
       THEN /\ cache' = DelKey(cache, threads[th].victim)
            /\ Goto(th, "set_write")
       ELSE /\ cache' = cache
            /\ Returned(th, PyBool(FALSE))
    /\ UNCHANGED <<now, last, disk, saved, seen_hashes, has_client, failed,
                 chat_table>>

\* set: `self.cache[key] = {...}; return True`
SetWrite(th) ==
    /\ threads[th].pc = "set_write"
    /\ cache' = PutEntry(cache, NewEntry(threads[th].call.key,
                                         threads[th].call.value, now))
    /\ Returned(th, PyBool(TRUE))
    /\ UNCHANGED <<now, last, disk, saved, seen_hashes, has_client, failed,
                 chat_table>>

\* get: `if key not in self.cache: return None`
GetCheck(th, call) ==
    /\ threads[th].pc = "idle"
    /\ call.op = "get"
    /\ threads' = [threads EXCEPT ![th] =
          [pc |-> IF Has(cache, call.key) THEN "get_read" ELSE "done",
           call |-> call, victim |-> NoKey, ret |-> None]]
    /\ UNCHANGED <<now, cache, last, disk, saved, seen_hashes, has_client,
                   failed,
                 chat_table>>

\* get: `entry = self.cache[key]` and the rest; a KeyError is caught by get,
\* which returns None
GetRead(th) ==
    /\ threads[th].pc = "get_read"
    /\ \E g \in {cache_get(cache, threads[th].call.key, now)} :
          /\ cache' = g.cache
          /\ Returned(th, g.ret)
    /\ UNCHANGED <<now, last, disk, saved, seen_hashes, has_client, failed,
                 chat_table>>

\* delete: `if key in self.cache`
DeleteCheck(th, call) ==
    /\ threads[th].pc = "idle"
    /\ call.op = "delete"
    /\ threads' = [threads EXCEPT ![th] =
          [pc |-> IF Has(cache, call.key) THEN "delete_del" ELSE "done",
           call |-> call, victim |-> NoKey,
           ret |-> IF Has(cache, call.key) THEN None ELSE PyBool(FALSE)]]
    /\ UNCHANGED <<now, cache, last, disk, saved, seen_hashes, has_client,
                   failed,
                 chat_table>>

\* delete: `del self.cache[key]; return True`; a KeyError is not caught
DeleteDel(th) ==
    /\ threads[th].pc = "delete_del"
    /\ cache' = DelKey(cache, threads[th].call.key)
    /\ Returned(th, IF Has(cache, threads[th].call.key) THEN PyBool(TRUE)
                    ELSE KeyError)
    /\ UNCHANGED <<now, last, disk, saved, seen_hashes, has_client, failed,
                 chat_table>>

NextCacheRace ==
    \/ \E th \in Threads, call \in Calls : SetCheck(th, call)
    \/ \E th \in Threads : SetEvict(th)
    \/ \E th \in Threads : SetWrite(th)
    \/ \E th \in Threads, call \in Calls : GetCheck(th, call)
    \/ \E th \in Threads : GetRead(th)
    \/ \E th \in Threads, call \in Calls : DeleteCheck(th, call)
    \/ \E th \in Threads : DeleteDel(th)

SpecCacheRace == InitCacheRace /\ [][NextCacheRace]_vars

----------------------------------------------------------------------------
(* Properties of the cache API (specification Spec) *)

\* what get(key) returns in the state after the step
GetAfter(key) == cache_get(cache', key, now').ret

\* what the claim promises for an entry e at clock t
Promised(e, t) == IF t <= e.expires_at THEN e.value ELSE None

\* the step is a set or a delete on key; clear deletes every key
SetOrDeleteOn(key) ==
    \/ last'.op \in {"set", "delete"} /\ last'.key = key
    \/ last'.op = "clear"

\* the set just taken returns its value while unexpired, None afterwards
SetThenGet ==
    \A key \in Keys :
        (last'.op = "set" /\ last'.key = key) =>
            /\ Has(cache', key)
            /\ Lookup(cache', key).value = last'.value
            /\ GetAfter(key) = Promised(Lookup(cache', key), now')

EvictedByOther(key) == last'.op = "set" /\ last'.evicted = key

C5_EvictsOldest ==
    [][ (last'.op = "set" /\ Len(cache) = max_size /\ ~Has(cache, last'.key)) =>
          \E i \in 1..Len(cache) :
              /\ \A j \in 1..Len(cache) : cache[i].created_at <= cache[j].created_at
              /\ ~Has(cache', cache[i].key)
              /\ \A j \in 1..Len(cache) :
                    j # i => /\ Has(cache', cache[j].key)
                             /\ Lookup(cache', cache[j].key) = cache[j]
              /\ KeysOf(cache') = (KeysOf(cache) \ {cache[i].key}) \cup {last'.key} ]_vars

\* a set of a new key on a full store has evicted an entry strictly older
\* than one it retained
C5_Witness ==
    /\ last.op = "set" /\ ~last.was_stored /\ last.evicted # NoKey
    /\ last.size_before = max_size /\ Len(cache) = max_size
    /\ \E i \in 1..Len(cache) :
          cache[i].key # last.key /\ cache[i].created_at < cache[Len(cache)].created_at

----------------------------------------------------------------------------
(* Properties of persistence (specification SpecPersist) *)

\* C6: round trip. After entries were set and saved with save_to_disk(name),
\* a load_from_disk(name) that succeeds leaves every saved entry that is
\* unexpired at load time retrievable by get with its original value, and
\* every saved entry that is expired at load time absent from the store.
C6_RoundTrip ==
    [][ (last'.op = "load" /\ last'.ret = PyBool(TRUE)) =>
          \A i \in 1..Len(saved[last'.key]) :
              LET e == saved[last'.key][i] IN
              /\ ~Expired(e, now') =>
                    /\ Has(cache', e.key)
                    /\ cache_get(cache', e.key, now').ret = e.value
              /\ Expired(e, now') => ~Has(cache', e.key) ]_vars

\* a fresh (empty) store has loaded a file in which one saved entry had
\* expired and another had not: the first is absent, the second is back
C6_Witness ==
    /\ last.op = "load" /\ last.ret = PyBool(TRUE) /\ last.size_before = 0
    /\ \E i, j \in 1..Len(saved[last.key]) :
          LET e == saved[last.key][i]
              x == saved[last.key][j] IN
          /\ Expired(x, now) /\ ~Has(cache, x.key)
          /\ ~Expired(e, now) /\ Has(cache, e.key)
          /\ e.value # None /\ Lookup(cache, e.key).value = e.value

----------------------------------------------------------------------------
(* Properties of deduplication and the triage flow (specification           *)
(* SpecTriage)                                                              *)

SeenBefore(query_id) ==
    Has(seen_hashes, query_id) \/ Has(cache, SeenKey(query_id))
LiveResult(query_id) ==
    /\ Has(cache, ResultKey(query_id))
    /\ ~Expired(Lookup(cache, ResultKey(query_id)), now)

\* C1: get_or_create_query_id(c) on a content whose id has not been seen
\* returns (id, True); a second call with the same content, made right
\* after a call that returned (id1, True), returns (id1, False).
C1_Idempotent ==
    [][ last'.op = "get_or_create" =>
          /\ last'.query_id = QueryIdOf(last'.request)
          /\ ~SeenBefore(last'.query_id) => last'.is_new
          /\ (last.op = "get_or_create" /\ last.is_new
                /\ last.request = last'.request) =>
                  /\ last'.query_id = last.query_id
                  /\ ~last'.is_new ]_vars

\* the second of two calls made at the same instant: the id was marked now,
\* its seen entry has been read once since, and the call returned False
C1_Witness ==
    /\ last.op = "get_or_create"
    /\ ~last.is_new
    /\ Has(seen_hashes, last.query_id)
    /\ Lookup(seen_hashes, last.query_id).value = now
    /\ Has(cache, SeenKey(last.query_id))
    /\ Lookup(cache, SeenKey(last.query_id)).created_at = now
    /\ Lookup(cache, SeenKey(last.query_id)).hits = 1

\* C3: a triage request whose query already has a cached, unexpired result R
\* (a first request completed and stored it) returns R without starting the
\* computation; of two requests in a row for one query, the first of which
\* computed and stored R, only the first computes.
C3_SecondReturnsCached ==
    [][ last'.op = "analyze" =>
          /\ LiveResult(last'.query_id) =>
                /\ ~last'.is_new
                /\ ~last'.attempted
                /\ last'.status = "ok"
                /\ last'.ret = Lookup(cache, ResultKey(last'.query_id)).value
          /\ (last.op = "analyze" /\ last.stored
                /\ last.query_id = last'.query_id) =>
                  /\ last.attempted
                  /\ ~last'.attempted
                  /\ last'.ret = last.ret ]_vars

\* a request answered from the cache at a later instant than the one at which
\* the response was built, while the seen entry of its query is gone
C3_Witness ==
    /\ last.op = "analyze"
    /\ ~last.attempted
    /\ last.ret # None
    /\ last.ret.timestamp < now
    /\ Has(cache, ResultKey(last.query_id))
    /\ Lookup(cache, ResultKey(last.query_id)).value = last.ret
    /\ Lookup(cache, ResultKey(last.query_id)).hits >= 1
    /\ ~Has(cache, SeenKey(last.query_id))

\* C7 as stated: once the dedup TTL of a seen query has elapsed, the next
\* get_or_create_query_id with the same content returns is_new = True.
C7_NewAgainAfterTTL ==
    [][ (/\ last'.op \in {"get_or_create", "analyze"}
         /\ Has(seen_hashes, last'.query_id)
         /\ now > Lookup(seen_hashes, last'.query_id).value + DEDUP_TTL) =>
            last'.is_new ]_vars

\* C8 as stated: when the LLM call of a triage request fails, the request
\* writes no entry under the result key of its query.
C8_FailedNeverCached ==
    [][ (last'.op = "analyze" /\ last'.llm_failed) =>
          IF LiveResult(last'.query_id)
          THEN /\ Has(cache', ResultKey(last'.query_id))
               /\ Lookup(cache', ResultKey(last'.query_id)).value =
                    Lookup(cache, ResultKey(last'.query_id)).value
          ELSE ~Has(cache', ResultKey(last'.query_id)) ]_vars

\* C9: a triage request for a query whose first request raised after the
\* query was marked as seen, and for which no result has been stored since,
\* starts the computation again (it is a duplicate, yet not suppressed).
C9_RetryRecomputes ==
    [][ (last'.op = "analyze" /\ last'.query_id \in failed) =>
          /\ ~last'.is_new
          /\ last'.attempted ]_vars

\* a retry of a failed query that computed again and failed again
C9_Witness ==
    /\ last.op = "analyze"
    /\ last.query_id \in failed
    /\ ~last.is_new
    /\ last.attempted
    /\ last.status = "error"

\* C10: a triage request for a seen query with no (unexpired) entry under the
\* result key recomputes; the miss is not an error: the request ends in an
\* error only when the analysis it obtained cannot be made a TriageResponse,
\* and otherwise it stores the new response under the result key and returns
\* it.
C10_MissRecomputes ==
    [][ (/\ last'.op = "analyze"
         /\ SeenBefore(last'.query_id)
         /\ ~LiveResult(last'.query_id)) =>
          /\ ~last'.is_new
          /\ last'.attempted
          /\ last'.status = "error" =>
                /\ Has(cache', AnalysisKey(last'.request))
                /\ ~Lookup(cache', AnalysisKey(last'.request)).value.well_typed
          /\ last'.status = "ok" =>
                /\ last'.ret.kind = "TriageResponse"
                /\ last'.ret.timestamp = now'
                /\ Has(cache', ResultKey(last'.query_id))
                /\ Lookup(cache', ResultKey(last'.query_id)).value = last'.ret
                /\ Lookup(cache', ResultKey(last'.query_id)).expires_at =
                     now' + RESULT_TTL ]_vars

\* a duplicate request that found no result, recomputed and stored one
C10_Witness ==
    /\ last.op = "analyze"
    /\ ~last.is_new
    /\ last.attempted
    /\ last.status = "ok"
    /\ Has(cache, ResultKey(last.query_id))
    /\ Lookup(cache, ResultKey(last.query_id)).value = last.ret
    /\ Lookup(cache, ResultKey(last.query_id)).created_at = now

----------------------------------------------------------------------------
(* Properties of concurrent deduplication (specification SpecRace) *)

CallersOf(request) == {th \in Threads : threads[th].request = request}

\* C2 as stated: when the callers of get_or_create_query_id with one
\* (previously unseen) content have all returned, exactly one of them has
\* is_new = True, whatever the interleaving of their steps.
C2_ExactlyOneNew ==
    \A request \in Requests :
        (/\ CallersOf(request) # {}
         /\ \A th \in CallersOf(request) : threads[th].pc = "returned") =>
            Cardinality({th \in CallersOf(request) : threads[th].is_new}) = 1

----------------------------------------------------------------------------
(* Properties of the fingerprint (specification SpecFingerprint) *)

Fingerprinted == last.op = "generate_query_id"

\* two values that are equal, or strings equal up to letter case and
\* surrounding blanks
SameUpToCase(u, v) ==
    IF u.kind = "str" /\ v.kind = "str"
    THEN strip(lower(u.s)) = strip(lower(v.s))
    ELSE u = v

\* two values that are equal, or one absent and the other null
SameUpToNull(u, v) == u = v \/ {u, v} = {Absent, None}

\* C11 as stated: two contents whose fields are equal up to the letter case
\* and the surrounding whitespace of their string values have the same query
\* id.
C11_CaseInsensitive ==
    (/\ Fingerprinted
     /\ \A k \in FieldNames :
           SameUpToCase(dict_of(last.a)[k], dict_of(last.b)[k])) =>
        last.id_a = last.id_b

\* C12 as stated: two contents whose fields are equal, or absent in one and
\* null in the other, have the same query id, in whatever order their keys
\* are written.
C12_AbsentNullCollide ==
    (/\ Fingerprinted
     /\ \A k \in FieldNames :
           SameUpToNull(dict_of(last.a)[k], dict_of(last.b)[k])) =>
        last.id_a = last.id_b

\* C13: two contents whose normalized dicts differ in at least one field
\* have different query ids (sha256 taken to be injective).
C13_Distinct ==
    (/\ Fingerprinted
     /\ normalized(dict_of(last.a)) # normalized(dict_of(last.b))) =>
        last.id_a # last.id_b

\* two contents that differ in the age only, 30 against 31, with different
\* ids
C13_Witness ==
    /\ Fingerprinted
    /\ dict_of(last.a).age = PyInt(30)
    /\ dict_of(last.b).age = PyInt(31)
    /\ \A k \in FieldNames \ {"age"} : dict_of(last.a)[k] = dict_of(last.b)[k]
    /\ last.id_a # last.id_b

----------------------------------------------------------------------------
(* Properties of set, get, delete and exists (specification Spec) and of   *)
(* get_stats (specification SpecStats)                                     *)

Live(e, t) == ~Expired(e, t)
LiveKeys(c, t) == {c[i].key : i \in {j \in 1..Len(c) : Live(c[j], t)}}

\* C14 as stated: a set removes a live entry of another key only if storing
\* the new entry would make the number of live entries exceed max_size.
C14_EvictsOnlyIfNeeded ==
    [][ last'.op = "set" =>
          \A i \in 1..Len(cache) :
              (/\ cache[i].key # last'.key
               /\ Live(cache[i], now)
               /\ ~Has(cache', cache[i].key)) =>
                  Cardinality(LiveKeys(cache, now) \cup {last'.key})
                      > max_size ]_vars

C16_GetFrame ==
    [][ (/\ last'.op = "get"
         /\ Has(cache, last'.key)
         /\ Live(Lookup(cache, last'.key), now)) =>
          /\ Len(cache') = Len(cache)
          /\ \A i \in 1..Len(cache) :
                IF cache[i].key = last'.key
                THEN /\ cache'[i].key = cache[i].key
                     /\ cache'[i].hits = cache[i].hits + 1
                     /\ cache'[i].value = cache[i].value
                     /\ cache'[i].created_at = cache[i].created_at
                     /\ cache'[i].expires_at = cache[i].expires_at
                ELSE cache'[i] = cache[i] ]_vars

\* a hit, after its creation instant, on one of two stored entries
C16_Witness ==
    /\ last.op = "get"
    /\ last.ret # None
    /\ Len(cache) = 2
    /\ Has(cache, last.key)
    /\ Lookup(cache, last.key).hits = 1
    /\ Lookup(cache, last.key).created_at < now

\* C17: delete(key) returns True exactly when an entry for key was stored;
\* afterwards get(key) is absent and every other entry is unchanged.
C17_Delete ==
    [][ last'.op = "delete" =>
          /\ last'.ret = PyBool(Has(cache, last'.key))
          /\ ~Has(cache', last'.key)
          /\ GetAfter(last'.key) = None
          /\ \A i \in 1..Len(cache) :
                cache[i].key # last'.key =>
                    /\ Has(cache', cache[i].key)
                    /\ Lookup(cache', cache[i].key) = cache[i]
          /\ KeysOf(cache') = KeysOf(cache) \ {last'.key} ]_vars

\* a delete that removed one of two stored entries
C17_Witness ==
    /\ last.op = "delete"
    /\ last.ret = PyBool(TRUE)
    /\ last.size_before = 2
    /\ Len(cache) = 1
    /\ ~Has(cache, last.key)

\* C18 as stated: exists(key) is True exactly when key is stored and
\* unexpired, whatever value is stored under it.
C18_ExistsIffStored ==
    [][ last'.op = "exists" =>
          last'.ret = PyBool(/\ Has(cache, last'.key)
                             /\ Live(Lookup(cache, last'.key), now)) ]_vars

\* C19: get_stats leaves the store as it was and reports size = the number
\* of stored entries, max_size = the configured maximum, total_hits = the sum
\* of the entries' hit counts and keys = the stored keys.
C19_StatsSnapshot ==
    [][ last'.op = "get_stats" =>
          /\ cache' = cache
          /\ last'.ret.size = Cardinality(KeysOf(cache))
          /\ last'.ret.max_size = max_size
          /\ last'.ret.total_hits =
                Cardinality({<<i, h>> \in (1..Len(cache)) \X (1..MaxHits) :
                                h <= cache[i].hits})
          /\ {last'.ret.keys[i] : i \in 1..Len(last'.ret.keys)} = KeysOf(cache)
          /\ Len(last'.ret.keys) = Len(cache) ]_vars

\* statistics of a store of two entries, both of which have been hit
C19_Witness ==
    /\ last.op = "get_stats"
    /\ last.ret.size = 2
    /\ last.ret.total_hits = 2
    /\ Len(cache) = 2
    /\ \A i \in 1..Len(cache) : cache[i].hits = 1

----------------------------------------------------------------------------
(* Properties of the failures of persistence (specification SpecPersist) *)

\* C20: load_from_disk returns False when the file is missing or cannot be
\* unpickled, and True when it loaded the file, so that the caller can tell
\* the two apart.
C20_LoadFailureReported ==
    [][ last'.op = "load" =>
          /\ disk[last'.key].state \in {"missing", "corrupt"} =>
                last'.ret = PyBool(FALSE)
          /\ disk[last'.key].state = "ok" => last'.ret = PyBool(TRUE) ]_vars

\* a load of a corrupt file into a store that holds an entry, reported as
\* failed
C20_Witness ==
    /\ last.op = "load"
    /\ last.ret = PyBool(FALSE)
    /\ disk[last.key].state = "corrupt"
    /\ Len(cache) > 0

----------------------------------------------------------------------------
(* Properties of the concurrent cache (specification SpecCacheRace) *)

\* one call run alone on store c at clock t: the store and the return value
serial_call(c, call, t) ==
    IF call.op = "set"
    THEN [cache |-> cache_set(c, call.key, call.value, NoArg, t, t),
          ret |-> PyBool(TRUE)]
    ELSE IF call.op = "get" THEN cache_get(c, call.key, t)
    ELSE cache_delete(c, call.key)

\* the threads' calls run one after the other in the given order, from
\* store c: the final store and what each thread's call returned
RECURSIVE serial_run(_, _, _, _)
serial_run(c, order, rets, t) ==
    IF order = <<>> THEN [cache |-> c, rets |-> rets]
    ELSE LET r == serial_call(c, threads[Head(order)].call, t) IN
         serial_run(r.cache, Tail(order),
                    [rets EXCEPT ![Head(order)] = r.ret], t)

SerialOrders ==
    {order \in [1..NThreads -> Threads] :
        \A i, j \in 1..NThreads : order[i] = order[j] => i = j}

\* C21 as stated: when the concurrent calls have all returned, the store and
\* the returned values are those of the same calls run in some serial order.
C21_Atomic ==
    (\A th \in Threads : threads[th].pc = "done") =>
        \E order \in SerialOrders :
            LET r == serial_run(last.store, order,
                                [th \in Threads |-> None], now) IN
            /\ r.cache = cache
            /\ \A th \in Threads : r.rets[th] = threads[th].ret

----------------------------------------------------------------------------
(* Frame properties of deduplication (specification SpecTriage) *)

DuplicateCall == last'.op = "get_or_create" /\ ~last'.is_new

\* C22 as stated: a get_or_create_query_id that finds the query already seen
\* leaves the cache entries, their hit counts included, and the seen set as
\* they were.
C22_NoSideEffects ==
    [][ DuplicateCall => /\ cache' = cache
                         /\ seen_hashes' = seen_hashes ]_vars

\* C22 amended: such a call leaves the seen set and every cache entry other
\* than query_seen_<id> as they were; of query_seen_<id> it changes what one
\* get changes: the hit count grows by 1 when the entry is stored and
\* unexpired, and the entry is removed when it is stored and expired.
C22_DuplicateFrame ==
    [][ DuplicateCall =>
          /\ seen_hashes' = seen_hashes
          /\ KeysOf(cache') \subseteq KeysOf(cache)
          /\ \A i \in 1..Len(cache) :
                IF cache[i].key # SeenKey(last'.query_id)
                THEN /\ Has(cache', cache[i].key)
                     /\ Lookup(cache', cache[i].key) = cache[i]
                ELSE IF Expired(cache[i], now)
                THEN ~Has(cache', cache[i].key)
                ELSE /\ Has(cache', cache[i].key)
                     /\ Lookup(cache', cache[i].key) =
                          [cache[i] EXCEPT !.hits = @ + 1] ]_vars

\* a duplicate call, later than the one that marked the query, that counted
\* a hit on the seen entry, another entry being stored
C22_Witness ==
    /\ last.op = "get_or_create"
    /\ ~last.is_new
    /\ Len(cache) = 2
    /\ Has(cache, SeenKey(last.query_id))
    /\ Lookup(cache, SeenKey(last.query_id)).hits = 1
    /\ Lookup(cache, SeenKey(last.query_id)).created_at < now

----------------------------------------------------------------------------
(* Properties of the similarity scan (specification SpecSimilar) *)

\* the symptoms text of the request whose query id is query_id
TextOf(query_id) ==
    (CHOOSE request \in Requests : QueryIdOf(request) = query_id).symptoms.s

\* C23: find_similar_queries(text, threshold) returns exactly the ids of the
\* seen queries that are still cached (after the scan the cache holds the
\* seen entries that were unexpired at the call) and whose token-set Jaccard
\* similarity to text is at least threshold.
C23_ExactlySimilar ==
    last.op = "find_similar" =>
        {last.ret[i] : i \in 1..Len(last.ret)} =
            {query_id \in {seen_hashes[i].key : i \in 1..Len(seen_hashes)} :
                /\ Has(cache, SeenKey(query_id))
                /\ AtLeast(calculate_text_similarity(last.request.symptoms,
                                                     TextOf(query_id)),
                           last.request.threshold)}

----------------------------------------------------------------------------
(* Properties of the entries set stores (specification SpecTTL) *)

\* C24: every entry a set stores satisfies expires_at = created_at + ttl
\* with ttl > 0, ttl being the effective time to live of the call, for every
\* ttl argument and every clock advance between the two clock reads of set.
C24_ExpiryIsCreationPlusTTL ==
    [][ \A key \in PersistKeys, value \in Values, ttl \in AnyTTLArgs,
           d \in ClockSkews :
          Set(key, value, ttl, d) =>
              LET entry == Lookup(cache', key)
                  ttl1 == OrDefault(ttl, CACHE_TTL)
              IN /\ ttl1 > 0
                 /\ entry.expires_at = entry.created_at + ttl1 ]_vars

----------------------------------------------------------------------------
(* Properties of chat storage (specification SpecChat) *)

\* the table holds an item of this user and message
Saved(table, request) ==
    \E i \in 1..Len(table) :
        /\ table[i].user_id = request.user_id
        /\ table[i].message = request.message

\* C25: save_chat_message deduplicates per message: the id of a call differs
\* from the id of every saved item of another (user_id, message), and a call
\* whose write never failed is skipped as a duplicate only if an item of its
\* (user_id, message) is saved.
C25_DedupPerMessage ==
    last.op = "save_chat_message" =>
        /\ \A i \in 1..Len(chat_table) :
              [user_id |-> chat_table[i].user_id,
               message |-> chat_table[i].message] # last.request
                  => chat_table[i].message_id # last.query_id
        /\ (~last.is_new /\ last.query_id \notin failed)
              => Saved(chat_table, last.request)

\* C26: when a save_chat_message failed to write (it returned "error"), the
\* retry of the same call is not suppressed as a duplicate: it attempts the
\* write, and the message is in the table unless the write fails again.
C26_RetryAfterFailedWrite ==
    [][ ( /\ last.op = "save_chat_message"
          /\ last.status = "error"
          /\ last'.op = "save_chat_message"
          /\ last'.request = last.request )
        => /\ last'.attempted
           /\ last'.status = "ok" => Saved(chat_table', last'.request) ]_vars

----------------------------------------------------------------------------
(* Properties of the cache in front of a file (specification SpecLoad) *)

\* C27: in every state reached from the empty cache by set, get, exists,
\* delete, clear and load_from_disk the cache holds at most max_size entries.
C27_CapacityBound == Len(cache) <= max_size

\* C30: load_from_disk is all-or-nothing: when it returns True the cache is
\* exactly the entries of the file that are unexpired at load time, and when
\* it returns False the cache is as it was before the call.
C30_AllOrNothing ==
    [][ \A file \in Files :
          (last'.op = "load" /\ last'.key = file) =>
              IF last'.ret = PyBool(TRUE)
              THEN cache' = SelectSeq(pickle_load(disk[file].items),
                                      LAMBDA e : now <= e.expires_at)
              ELSE cache' = cache
       ]_vars

----------------------------------------------------------------------------
(* Ordering of the seen mark and the result (specification SpecTriage) *)

\* C28: whenever the cache holds a result entry triage_result_<id>, id has
\* been marked as seen by the deduplication service, and no later than the
\* result was stored.
C28_SeenBeforeResult ==
    \A i \in 1..Len(cache) :
        cache[i].key[1] = "triage_result_" =>
            /\ Has(seen_hashes, cache[i].key[2])
            /\ Lookup(seen_hashes, cache[i].key[2]).value <= cache[i].created_at

\* a result is cached while the seen entry of its query is no longer in
\* the cache
C28_Witness ==
    \E request \in Requests :
        /\ Has(cache, ResultKey(QueryIdOf(request)))
        /\ ~Has(cache, SeenKey(QueryIdOf(request)))

----------------------------------------------------------------------------
(* Lazy expiry (specification Spec) *)

\* C29: a get(key) that finds key expired removes exactly that entry and
\* returns None; every other entry, expired or not, stays as it was; a get
\* on a key that is not stored changes nothing and returns None.
C29_LazyExpiryFrame ==
    [][ last'.op = "get" =>
          IF ~Has(cache, last'.key)
          THEN cache' = cache /\ last'.ret = None
          ELSE now > Lookup(cache, last'.key).expires_at =>
                 /\ last'.ret = None
                 /\ ~Has(cache', last'.key)
                 /\ Len(cache') = Len(cache) - 1
                 /\ \A i \in 1..Len(cache) :
                       cache[i].key # last'.key =>
                           /\ Has(cache', cache[i].key)
                           /\ Lookup(cache', cache[i].key) = cache[i] ]_vars

\* a get removed an expired entry of a store of two, and the entry that
\* stays is expired as well
C29_Witness ==
    /\ last.op = "get"
    /\ last.ret = None
    /\ last.size_before = 2
    /\ Len(cache) = 1
    /\ now > cache[1].expires_at

====
